---- MODULE Spec2Model ----
(***************************************************************************)
(* Class Sync: the command runner, the four command handlers (professor    *)
(* setup, professor sync, student setup, student resync) and the status    *)
(* bar visibility logic of the student extension.                          *)
(*                                                                         *)
(* JavaScript runs a handler without interruption until its next await, so *)
(* one action of this model is one such run: the event that resumes the    *)
(* handler (command invoked, prompt answered, process exited) together     *)
(* with everything the handler does until it awaits again or returns.      *)
(*                                                                         *)
(* Text built by template literals is a sequence of parts; text that the   *)
(* code trims (process output) is a sequence of one-character strings.     *)
(***************************************************************************)
EXTENDS Integers, Sequences, FiniteSets, Bags, TLC

VARIABLES
    wsOpen,      \* vscode.workspace.workspaceFolders?.[0] is defined
    gitExists,   \* a .git entry exists in the first workspace folder
    buttons,     \* visibility of cloneButton and resetButton
    seen,        \* what the last updateStatusBarVisibility() run found
    repoUrl,     \* context.workspaceState entry 'repoUrl'
    handlers     \* the command handler invocations that are alive (a bag)

vars == <<wsOpen, gitExists, buttons, seen, repoUrl, handlers>>

\* Number of handler invocations that can be alive at the same time.
MaxHandlers == 2

----------------------------------------------------------------------------
(* Values *)

Undefined == "undefined"

\* Answers of showInputBox: dismissed, left empty, or a repository name.
RepoNames == {"aula1", "aula2"}
InputBoxAnswers == {Undefined, ""} \cup RepoNames
\* professorSetup keeps the name to itself, one name covers it.
SetupAnswers == {Undefined, "", "aula1"}

\* Answers of the modal warning: its only item, or dismissed.
YesReset == "Yes, reset my work"
WarningAnswers == {YesReset, Undefined}

Whitespace == {" ", "\n"}

\* Standard output of an external process, as characters.
EmptyOut == << >>
StatusOutputs == {EmptyOut, <<"\n">>, <<" ", "M", " ", "a", "\n">>}
BranchOutputs == {<<"m", "\n">>, EmptyOut}

NoError == [message |-> "", raw |-> ""]
\* reject('Please open a project folder first.'): a string, it has no .message
NoFolderError == [message |-> "", raw |-> "Please open a project folder first."]
\* the ExecException of a process that did not exit with status zero
ExecError == [message |-> "Command failed", raw |-> "Error: Command failed"]

----------------------------------------------------------------------------
(* String helpers *)

RECURSIVE trimStart(_)
trimStart(s) ==
    IF s = << >> THEN << >>
    ELSE IF Head(s) \in Whitespace THEN trimStart(Tail(s))
    ELSE s

RECURSIVE trimEnd(_)
trimEnd(s) ==
    IF s = << >> THEN << >>
    ELSE IF s[Len(s)] \in Whitespace THEN trimEnd(SubSeq(s, 1, Len(s) - 1))
    ELSE s

\* String.prototype.trim()
trim(s) == trimEnd(trimStart(s))

\* `https://github.com/afmiguel/${repoName}.git`
RepoUrlOf(repoName) == <<"https://github.com/afmiguel/", repoName, ".git">>

\* `${error.message || error}`
ErrorText(error) == IF error.message # "" THEN error.message ELSE error.raw

----------------------------------------------------------------------------
(* Commands *)

userName == "Afonso Miguel"
userEmail == "afonso.miguel@pucpr.br"

CmdConfigName == <<"git config --global user.name \"", userName, "\"">>
CmdConfigEmail == <<"git config --global user.email \"", userEmail, "\"">>
CmdInit == <<"git init">>
CmdRemoteRemove == <<"git remote remove origin">>
CmdRemoteAdd(url) == <<"git remote add origin ">> \o url
CmdAddAll == <<"git add .">>
CmdInitialCommit == <<"git commit --allow-empty -m \"Initial commit from Class Sync\"">>
CmdShowBranch == <<"git branch --show-current">>
CmdPushUpstream(branchName) == <<"git push -u origin ">> \o branchName
CmdStatus == <<"git status --porcelain">>
CmdCommitUpdate == <<"git commit -m \"Update from professor\"">>
CmdPush == <<"git push">>
CmdClone(url) == <<"git clone ">> \o url \o <<" .">>
CmdFetch == <<"git fetch origin">>
CmdResetHard(branchName) == <<"git reset --hard origin/">> \o branchName
CmdClean == <<"git clean -fd">>

\* What a process can print, by command (only two outputs are ever read).
OutputsOf(command) ==
    IF command = CmdStatus THEN StatusOutputs
    ELSE IF command = CmdShowBranch THEN BranchOutputs
    ELSE {EmptyOut}

----------------------------------------------------------------------------
(* The promise returned by runCommand, and the command runner *)

\* proc: "none" no process was started, "running", "exited"
NewPromise ==
    [state |-> "pending", stdout |-> EmptyOut, error |-> NoError,
     resolves |-> 0, rejects |-> 0, proc |-> "none", exit |-> 0,
     out |-> EmptyOut]

\* resolve(value): only the first settlement of a promise takes effect
resolve(p, value) ==
    IF p.state = "pending"
    THEN [p EXCEPT !.state = "resolved", !.stdout = value, !.resolves = @ + 1]
    ELSE [p EXCEPT !.resolves = @ + 1]

\* reject(reason)
reject(p, reason) ==
    IF p.state = "pending"
    THEN [p EXCEPT !.state = "rejected", !.error = reason, !.rejects = @ + 1]
    ELSE [p EXCEPT !.rejects = @ + 1]

\* Variant: the folder check is missing.
runCommand_NoFolderCheck(ws) == [NewPromise EXCEPT !.proc = "running"]

\* The synchronous part of runCommand: the folder check and exec().
runCommand(ws) ==
    IF ~ws
    THEN reject(NewPromise, NoFolderError)
    ELSE [NewPromise EXCEPT !.proc = "running"]

\* exec() hands its callback an error exactly when the exit status is not zero
execError(code) == IF code # 0 THEN ExecError ELSE NoError

\* Variant: the error branch does not return, so resolve is called as well.
execCallback_NoReturn(p, error, stdout) ==
    IF error # NoError
    THEN resolve(reject(p, error), stdout)
    ELSE resolve(p, stdout)

\* The callback given to exec().
execCallback(p, error, stdout) ==
    IF error # NoError
    THEN reject(p, error)
    ELSE resolve(p, stdout)

\* The process of promise p exits with status code, having printed out.
processExit(p, code, out) ==
    execCallback([p EXCEPT !.proc = "exited", !.exit = code, !.out = out],
                 execError(code), out)

----------------------------------------------------------------------------
(* Handler invocations *)

\* pc: "prompt" awaiting showInputBox / showWarningMessage, "await" awaiting
\* the promise in call, "awaitUpdate" awaiting workspaceState.update,
\* "done" returned.  calls: the runCommand calls made so far, in order.
\* notes: the notifications shown (and editor commands executed) so far.
Idle ==
    [kind |-> "idle", pc |-> "idle", repoName |-> Undefined,
     confirmation |-> Undefined, status |-> EmptyOut, branchName |-> EmptyOut,
     call |-> NewPromise, calls |-> << >>, notes |-> << >>]

\* A handler together with the workspace state it can write.
World(h, url) == [h |-> h, repoUrl |-> url]

showInformationMessage(w, text) ==
    [w EXCEPT !.h.notes = Append(@, [type |-> "info", text |-> text])]

showErrorMessage(w, text) ==
    [w EXCEPT !.h.notes = Append(@, [type |-> "error", text |-> text])]

executeCommand(w, id) ==
    [w EXCEPT !.h.notes = Append(@, [type |-> "executeCommand", text |-> <<id>>])]

return(w) == [w EXCEPT !.h.pc = "done"]

\* await runCommand(command, ...): the call and the suspension on its promise
awaitRunCommand(w, ws, command) ==
    LET p == runCommand(ws) IN
    [w EXCEPT !.h.call = p,
              !.h.calls = Append(@, [cmd |-> command, proc |-> p.proc # "none",
                                     res |-> p.state]),
              !.h.pc = "await"]

\* context.workspaceState.update('repoUrl', value) and the await on it
awaitWorkspaceStateUpdate(w, value) ==
    [w EXCEPT !.repoUrl = value, !.h.pc = "awaitUpdate"]

InfoGitConfigured == <<"Git configured globally for: ", userName>>
InfoSetupDone == <<"Repository configured and pushed successfully!">>
InfoNoChanges == <<"No new changes to send.">>
InfoPushed == <<"Update pushed successfully!">>
InfoCloned == <<"Professor's project cloned successfully! The window will now reload.">>
InfoSynced == <<"Project synced successfully!">>
PrefixSetup == "An error occurred: "
PrefixSync == "Failed to push update: "
PrefixClone == "Failed to clone repository: "
PrefixResync == "Failed to sync: "

\* Variant: an empty catch block.
catch_Silent(w, prefix) == return(w)

\* catch (error) { showErrorMessage(`<prefix>${error.message || error}`) }
catch(w, prefix) ==
    return(showErrorMessage(w, <<prefix, ErrorText(w.h.call.error)>>))

----------------------------------------------------------------------------
(* professorSetup *)

professorSetupInvoked(w) ==
    [w EXCEPT !.h.kind = "professorSetup", !.h.pc = "prompt"]

professorSetupAnswered(w, ws, repoName) ==
    LET w1 == [w EXCEPT !.h.repoName = repoName] IN
    IF repoName \in {Undefined, ""}
    THEN return(w1)
    ELSE awaitRunCommand(w1, ws, CmdConfigName)

\* Variant: 'git remote remove origin' is not wrapped in its own try/catch.
professorSetupStep_RemoveAborts(w, ws) ==
    LET n == Len(w.h.calls)
        ok == w.h.call.state = "resolved"
    IN
    IF ~ok THEN catch(w, PrefixSetup)
    ELSE IF n = 1 THEN awaitRunCommand(w, ws, CmdConfigEmail)
    ELSE IF n = 2 THEN
        awaitRunCommand(showInformationMessage(w, InfoGitConfigured), ws, CmdInit)
    ELSE IF n = 3 THEN awaitRunCommand(w, ws, CmdRemoteRemove)
    ELSE IF n = 4 THEN
        awaitRunCommand(w, ws, CmdRemoteAdd(RepoUrlOf(w.h.repoName)))
    ELSE IF n = 5 THEN awaitRunCommand(w, ws, CmdAddAll)
    ELSE IF n = 6 THEN awaitRunCommand(w, ws, CmdInitialCommit)
    ELSE IF n = 7 THEN awaitRunCommand(w, ws, CmdShowBranch)
    ELSE IF n = 8 THEN
        LET branchName == trim(w.h.call.stdout) IN
        awaitRunCommand([w EXCEPT !.h.branchName = branchName], ws,
                        CmdPushUpstream(branchName))
    ELSE return(showInformationMessage(w, InfoSetupDone))

\* The handler resumes with the promise of its n-th runCommand call settled.
professorSetupStep(w, ws) ==
    LET n == Len(w.h.calls)
        ok == w.h.call.state = "resolved"
    IN
    IF n = 4 THEN
        \* the inner try/catch around 'git remote remove origin'
        awaitRunCommand(w, ws, CmdRemoteAdd(RepoUrlOf(w.h.repoName)))
    ELSE IF ~ok THEN catch(w, PrefixSetup)
    ELSE IF n = 1 THEN awaitRunCommand(w, ws, CmdConfigEmail)
    ELSE IF n = 2 THEN
        awaitRunCommand(showInformationMessage(w, InfoGitConfigured), ws, CmdInit)
    ELSE IF n = 3 THEN awaitRunCommand(w, ws, CmdRemoteRemove)
    ELSE IF n = 5 THEN awaitRunCommand(w, ws, CmdAddAll)
    ELSE IF n = 6 THEN awaitRunCommand(w, ws, CmdInitialCommit)
    ELSE IF n = 7 THEN awaitRunCommand(w, ws, CmdShowBranch)
    ELSE IF n = 8 THEN
        LET branchName == trim(w.h.call.stdout) IN
        awaitRunCommand([w EXCEPT !.h.branchName = branchName], ws,
                        CmdPushUpstream(branchName))
    ELSE return(showInformationMessage(w, InfoSetupDone))

----------------------------------------------------------------------------
(* professorSync *)

professorSyncInvoked(w, ws) ==
    awaitRunCommand([w EXCEPT !.h.kind = "professorSync"], ws, CmdStatus)

\* Variant: the output is compared without trimming.
statusIsEmpty_NoTrim(status) == status = EmptyOut

\* status.trim() === ''
statusIsEmpty(status) == trim(status) = EmptyOut

professorSyncStep(w, ws) ==
    LET n == Len(w.h.calls)
        ok == w.h.call.state = "resolved"
    IN
    IF ~ok THEN catch(w, PrefixSync)
    ELSE IF n = 1 THEN
        LET w1 == [w EXCEPT !.h.status = w.h.call.stdout] IN
        IF statusIsEmpty(w1.h.status)
        THEN return(showInformationMessage(w1, InfoNoChanges))
        ELSE awaitRunCommand(w1, ws, CmdAddAll)
    ELSE IF n = 2 THEN awaitRunCommand(w, ws, CmdCommitUpdate)
    ELSE IF n = 3 THEN awaitRunCommand(w, ws, CmdPush)
    ELSE return(showInformationMessage(w, InfoPushed))

----------------------------------------------------------------------------
(* studentSetup *)

studentSetupInvoked(w) ==
    [w EXCEPT !.h.kind = "studentSetup", !.h.pc = "prompt"]

\* Variant: the URL is stored before the clone has run.
studentSetupAnswered_StoreFirst(w, ws, repoName) ==
    LET w1 == [w EXCEPT !.h.repoName = repoName] IN
    IF repoName \in {Undefined, ""}
    THEN return(w1)
    ELSE awaitRunCommand([w1 EXCEPT !.repoUrl = RepoUrlOf(repoName)], ws,
                         CmdClone(RepoUrlOf(repoName)))

studentSetupAnswered(w, ws, repoName) ==
    LET w1 == [w EXCEPT !.h.repoName = repoName] IN
    IF repoName \in {Undefined, ""}
    THEN return(w1)
    ELSE awaitRunCommand(w1, ws, CmdClone(RepoUrlOf(repoName)))

studentSetupStep(w, ws) ==
    IF w.h.call.state # "resolved" THEN catch(w, PrefixClone)
    ELSE awaitWorkspaceStateUpdate(w, RepoUrlOf(w.h.repoName))

\* the promise of workspaceState.update is fulfilled
studentSetupUpdated(w) ==
    return(executeCommand(showInformationMessage(w, InfoCloned),
                          "workbench.action.reloadWindow"))

----------------------------------------------------------------------------
(* studentResync *)

studentResyncInvoked(w) ==
    [w EXCEPT !.h.kind = "studentResync", !.h.pc = "prompt"]

\* Variant: the answer of the dialog is not looked at.
studentResyncAnswered_Unconfirmed(w, ws, confirmation) ==
    awaitRunCommand([w EXCEPT !.h.confirmation = confirmation], ws, CmdFetch)

studentResyncAnswered(w, ws, confirmation) ==
    LET w1 == [w EXCEPT !.h.confirmation = confirmation] IN
    IF confirmation = YesReset
    THEN awaitRunCommand(w1, ws, CmdFetch)
    ELSE return(w1)

\* Variant: untracked files are removed before the hard reset.
studentResyncStep_CleanFirst(w, ws) ==
    LET n == Len(w.h.calls)
        ok == w.h.call.state = "resolved"
    IN
    IF ~ok THEN catch(w, PrefixResync)
    ELSE IF n = 1 THEN awaitRunCommand(w, ws, CmdShowBranch)
    ELSE IF n = 2 THEN
        awaitRunCommand([w EXCEPT !.h.branchName = trim(w.h.call.stdout)], ws,
                        CmdClean)
    ELSE IF n = 3 THEN awaitRunCommand(w, ws, CmdResetHard(w.h.branchName))
    ELSE return(showInformationMessage(w, InfoSynced))

studentResyncStep(w, ws) ==
    LET n == Len(w.h.calls)
        ok == w.h.call.state = "resolved"
    IN
    IF ~ok THEN catch(w, PrefixResync)
    ELSE IF n = 1 THEN awaitRunCommand(w, ws, CmdShowBranch)
    ELSE IF n = 2 THEN
        LET branchName == trim(w.h.call.stdout) IN
        awaitRunCommand([w EXCEPT !.h.branchName = branchName], ws,
                        CmdResetHard(branchName))
    ELSE IF n = 3 THEN awaitRunCommand(w, ws, CmdClean)
    ELSE return(showInformationMessage(w, InfoSynced))

----------------------------------------------------------------------------
(* Running a handler up to its next suspension *)

handlerStep(w, ws) ==
    CASE w.h.kind = "professorSetup" -> professorSetupStep(w, ws)
      [] w.h.kind = "professorSync" -> professorSyncStep(w, ws)
      [] w.h.kind = "studentSetup" -> studentSetupStep(w, ws)
      [] w.h.kind = "studentResync" -> studentResyncStep(w, ws)

\* A handler awaiting a promise that is already settled goes on in the same
\* run of the event loop; it stops at a pending promise or when it returns.
RECURSIVE continue(_, _)
continue(w, ws) ==
    IF w.h.pc = "await" /\ w.h.call.state # "pending"
    THEN continue(handlerStep(w, ws), ws)
    ELSE w

----------------------------------------------------------------------------
(* Status bar of the student extension *)

Hidden == [clone |-> FALSE, reset |-> FALSE]

show(b, item) == [b EXCEPT ![item] = TRUE]
hide(b, item) == [b EXCEPT ![item] = FALSE]

\* Variant: the Clone button is not hidden when the Reset button is shown.
updateStatusBarVisibility_NoHide(b, ws, git) ==
    IF ws
    THEN IF git
         THEN show(b, "reset")
         ELSE hide(show(b, "clone"), "reset")
    ELSE hide(hide(b, "clone"), "reset")

updateStatusBarVisibility(b, ws, git) ==
    IF ws
    THEN IF git
         THEN hide(show(b, "reset"), "clone")
         ELSE hide(show(b, "clone"), "reset")
    ELSE hide(hide(b, "clone"), "reset")

\* What a run of updateStatusBarVisibility reads: whether a first folder is
\* open and, only then, whether it holds a .git entry.
Found(ws, git) == [folder |-> ws, git |-> ws /\ git]

----------------------------------------------------------------------------
(* Actions *)

NoUrl == << >>

Alive == BagToSet(handlers)

\* The handler in world w runs on until it suspends or returns; it takes
\* the place of invocation old (EmptyBag when it is a new invocation).
Resume(old, w) ==
    LET w1 == continue(w, wsOpen) IN
    /\ handlers' = (handlers (-) old) (+) SetToBag({w1.h})
    /\ repoUrl' = w1.repoUrl
    /\ UNCHANGED <<wsOpen, gitExists, buttons, seen>>

CanInvoke == BagCardinality(handlers) < MaxHandlers

professorSetup ==
    /\ CanInvoke
    /\ Resume(EmptyBag, professorSetupInvoked(World(Idle, repoUrl)))

professorSync ==
    /\ CanInvoke
    /\ Resume(EmptyBag, professorSyncInvoked(World(Idle, repoUrl), wsOpen))

studentSetup ==
    /\ CanInvoke
    /\ Resume(EmptyBag, studentSetupInvoked(World(Idle, repoUrl)))

studentResync ==
    /\ CanInvoke
    /\ Resume(EmptyBag, studentResyncInvoked(World(Idle, repoUrl)))

\* The user answers or dismisses the input box of invocation h.
InputBoxAnswered(h) ==
    /\ h.pc = "prompt"
    /\ h.kind \in {"professorSetup", "studentSetup"}
    /\ \E repoName \in (IF h.kind = "professorSetup" THEN SetupAnswers
                         ELSE InputBoxAnswers) :
          LET w == World(h, repoUrl) IN
          IF h.kind = "professorSetup"
          THEN Resume(SetToBag({h}), professorSetupAnswered(w, wsOpen, repoName))
          ELSE Resume(SetToBag({h}), studentSetupAnswered(w, wsOpen, repoName))

\* The user answers or dismisses the modal warning of invocation h.
WarningAnswered(h) ==
    /\ h.pc = "prompt"
    /\ h.kind = "studentResync"
    /\ \E confirmation \in WarningAnswers :
          Resume(SetToBag({h}),
                 studentResyncAnswered(World(h, repoUrl), wsOpen, confirmation))

\* The external process of invocation h exits; exec() calls back.
ProcessExited(h) ==
    /\ h.pc = "await"
    /\ h.call.proc = "running"
    /\ \E code \in {0, 1} :
       \E out \in (IF code = 0 THEN OutputsOf(h.calls[Len(h.calls)].cmd)
                   ELSE {EmptyOut}) :
          LET p == processExit(h.call, code, out)
              h1 == [h EXCEPT !.call = p, !.calls[Len(h.calls)].res = p.state]
          IN Resume(SetToBag({h}), World(h1, repoUrl))

\* The promise of workspaceState.update awaited by invocation h is fulfilled.
WorkspaceStateUpdated(h) ==
    /\ h.pc = "awaitUpdate"
    /\ Resume(SetToBag({h}), studentSetupUpdated(World(h, repoUrl)))

\* A returned invocation is forgotten.
Forget(h) ==
    /\ h.pc = "done"
    /\ handlers' = handlers (-) SetToBag({h})
    /\ UNCHANGED <<wsOpen, gitExists, buttons, seen, repoUrl>>

\* The user opens or closes the workspace folder (no listener registered).
FoldersChanged ==
    /\ wsOpen' = ~wsOpen
    /\ UNCHANGED <<gitExists, buttons, seen, repoUrl, handlers>>

\* The same in the student extension, whose listener updates the buttons.
onDidChangeWorkspaceFolders ==
    /\ wsOpen' \in BOOLEAN
    /\ gitExists' \in (IF wsOpen' THEN BOOLEAN ELSE {FALSE})
    /\ buttons' = updateStatusBarVisibility(buttons, wsOpen', gitExists')
    /\ seen' = Found(wsOpen', gitExists')
    /\ UNCHANGED <<repoUrl, handlers>>

\* A .git entry appears in or disappears from the open folder; no event.
GitDirChanged ==
    /\ wsOpen
    /\ gitExists' = ~gitExists
    /\ UNCHANGED <<wsOpen, buttons, seen, repoUrl, handlers>>

----------------------------------------------------------------------------
(* The Class Sync extension: four commands, no status bar *)

Init ==
    /\ wsOpen \in BOOLEAN
    /\ gitExists = FALSE
    /\ buttons = Hidden
    /\ seen = Found(FALSE, FALSE)
    /\ repoUrl = NoUrl
    /\ handlers = EmptyBag

Next ==
    \/ professorSetup
    \/ professorSync
    \/ studentSetup
    \/ studentResync
    \/ \E h \in Alive : InputBoxAnswered(h)
    \/ \E h \in Alive : WarningAnswered(h)
    \/ \E h \in Alive : ProcessExited(h)
    \/ \E h \in Alive : WorkspaceStateUpdated(h)
    \/ \E h \in Alive : Forget(h)
    \/ FoldersChanged

Spec == Init /\ [][Next]_vars

(* The Class Sync - Student extension: two commands and the status bar *)

InitStudent ==
    /\ wsOpen \in BOOLEAN
    /\ gitExists \in (IF wsOpen THEN BOOLEAN ELSE {FALSE})
    /\ buttons = updateStatusBarVisibility(Hidden, wsOpen, gitExists)
    /\ seen = Found(wsOpen, gitExists)
    /\ repoUrl = NoUrl
    /\ handlers = EmptyBag

NextStudent ==
    \/ studentSetup
    \/ studentResync
    \/ \E h \in Alive : InputBoxAnswered(h)
    \/ \E h \in Alive : WarningAnswered(h)
    \/ \E h \in Alive : ProcessExited(h)
    \/ \E h \in Alive : WorkspaceStateUpdated(h)
    \/ \E h \in Alive : Forget(h)
    \/ onDidChangeWorkspaceFolders
    \/ GitDirChanged

SpecStudent == InitStudent /\ [][NextStudent]_vars

----------------------------------------------------------------------------
(* Properties *)

Cmds(h) == [i \in 1..Len(h.calls) |-> h.calls[i].cmd]
IsError(n) == n.type = "error"
ErrorNotes(h) == SelectSeq(h.notes, IsError)
IsPrefix(a, b) == Len(a) <= Len(b) /\ a = SubSeq(b, 1, Len(a))
AllWhitespace(out) == \A i \in 1..Len(out) : out[i] \in {" ", "\n"}
IsResetCmd(c) == Head(c) = "git reset --hard origin/"
\* the invocations that a step created or changed
Touched == {h \in BagToSet(handlers') : CopiesIn(h, handlers') > CopiesIn(h, handlers)}
InFlight ==
    BagCardinality([h \in {x \in Alive : x.call.proc = "running"} |-> handlers[h]])

\* C1: a student-resync invocation issues git commands only after the answer
\* 'Yes, reset my work'; with any other answer it makes no runCommand call
\* and shows no notification at all.
C1_ResetOnlyWhenConfirmed ==
    \A h \in Alive :
        h.kind = "studentResync" =>
            \/ h.confirmation = "Yes, reset my work"
            \/ (h.calls = << >> /\ h.notes = << >>)

C1_Witness ==
    /\ \E h \in Alive : /\ h.kind = "studentResync" /\ h.pc = "done"
                        /\ h.confirmation = Undefined
    /\ \E h \in Alive : /\ h.kind = "studentResync" /\ Len(h.calls) = 4
                        /\ h.confirmation = "Yes, reset my work"

\* C2: in professor-sync, when the output of 'git status --porcelain' is
\* empty after trimming, the handler reports 'No new changes to send.' and
\* makes no further call; git add, commit and push are issued only after a
\* status output that is not empty after trimming.
C2_CleanTreeNoMutation ==
    \A h \in Alive :
        h.kind = "professorSync" =>
            /\ IsPrefix(Cmds(h), <<CmdStatus, CmdAddAll, CmdCommitUpdate, CmdPush>>)
            /\ (h.calls[1].res = "resolved" /\ AllWhitespace(h.status)) =>
                   /\ Len(h.calls) = 1
                   /\ h.pc = "done"
                   /\ h.notes = <<[type |-> "info", text |-> <<"No new changes to send.">>]>>
            /\ (h.calls[1].res = "resolved" /\ ~AllWhitespace(h.status)) =>
                   Len(h.calls) >= 2
            /\ Len(h.calls) >= 2 =>
                   (h.calls[1].res = "resolved" /\ ~AllWhitespace(h.status))

C2_Witness ==
    /\ \E h \in Alive : /\ h.kind = "professorSync" /\ h.pc = "done"
                        /\ h.status = <<"\n">> /\ h.calls[1].res = "resolved"
    /\ \E h \in Alive : /\ h.kind = "professorSync" /\ Len(h.calls) = 4
                        /\ h.calls[4].res = "resolved"

\* C3: at most one external process started by runCommand is in flight at
\* any time, whatever commands the user invokes and when.
C3_AtMostOneInFlight == InFlight <= 1

\* C4: in every handler a rejected runCommand call (other than the tolerated
\* 'git remote remove origin') is the last call of the invocation, which then
\* has returned having shown exactly one error notification, as its last
\* notification, carrying the error's message or else the raw error; with no
\* such rejection no error notification is shown; no command is issued twice.
C4_FailFast ==
    \A h \in Alive :
        LET failed == {i \in 1..Len(h.calls) :
                          /\ h.calls[i].res = "rejected"
                          /\ ~(h.kind = "professorSetup"
                               /\ h.calls[i].cmd = <<"git remote remove origin">>)}
            errs == ErrorNotes(h)
        IN
        /\ failed = {} => errs = << >>
        /\ failed # {} =>
              /\ failed = {Len(h.calls)}
              /\ h.pc = "done"
              /\ Len(errs) = 1
              /\ h.notes[Len(h.notes)] = errs[1]
              /\ errs[1].text[2] = (IF h.calls[Len(h.calls)].proc
                                    THEN "Command failed"
                                    ELSE "Please open a project folder first.")
        /\ \A i, j \in 1..Len(h.calls) : i # j => h.calls[i].cmd # h.calls[j].cmd

C4_Witness ==
    /\ \E h \in Alive : /\ h.kind = "professorSetup" /\ Len(h.calls) = 6
                        /\ h.calls[6].res = "rejected" /\ h.calls[6].proc
    /\ \E h \in Alive : /\ h.kind = "professorSync" /\ Len(h.calls) = 3
                        /\ h.calls[3].res = "rejected" /\ ~h.calls[3].proc

\* C5: in professor-setup a rejected 'git remote remove origin' shows no error
\* notification and is followed by 'git remote add origin <url>'; the calls of
\* the invocation are, in order, a prefix of config name, config email, init,
\* remote remove, remote add, add, commit, branch --show-current, push, and
\* the success message is shown only after all nine.
C5_RemoveFailureTolerated ==
    \A h \in Alive :
        h.kind = "professorSetup" =>
            LET url == <<"https://github.com/afmiguel/", h.repoName, ".git">>
                sequence == <<CmdConfigName, CmdConfigEmail, CmdInit,
                              <<"git remote remove origin">>,
                              <<"git remote add origin ">> \o url,
                              <<"git add .">>, CmdInitialCommit,
                              <<"git branch --show-current">>,
                              <<"git push -u origin ">> \o h.branchName>>
                others == {i \in 1..Len(h.calls) : i # 4 /\ h.calls[i].res = "rejected"}
            IN
            /\ IsPrefix(Cmds(h), sequence)
            /\ (Len(h.calls) >= 4 /\ h.calls[4].res = "rejected") =>
                   /\ Len(h.calls) >= 5
                   /\ others = {} => ErrorNotes(h) = << >>
            /\ (h.pc = "done" /\ h.calls # << >> /\ others = {}) =>
                   /\ Len(h.calls) = 9
                   /\ h.notes[Len(h.notes)].text = InfoSetupDone

C5_Witness ==
    \E h \in Alive :
        /\ h.kind = "professorSetup" /\ h.pc = "done" /\ Len(h.calls) = 9
        /\ h.calls[4].res = "rejected" /\ h.calls[4].proc
        /\ h.calls[9].res = "resolved"
        /\ h.notes[Len(h.notes)].text = InfoSetupDone

\* C6: a step in which a handler makes runCommand calls starts an external
\* process only if a workspace folder is open; with no folder open the call
\* is rejected with 'Please open a project folder first.' and nothing runs.
\* A call that started no process is a rejected call.
C6_FolderRequired ==
    [][\A h \in Touched :
          /\ h.call.proc = "running" => wsOpen
          /\ (~wsOpen /\ h.call.proc = "none" /\ h.calls # << >>) =>
                /\ h.call.state = "rejected"
                /\ h.call.error.raw = "Please open a project folder first."
                /\ h.call.rejects = 1 /\ h.call.resolves = 0
          /\ \A i \in 1..Len(h.calls) :
                ~h.calls[i].proc => h.calls[i].res = "rejected"
      ]_vars

C6_Witness ==
    /\ ~wsOpen
    /\ \E h \in Alive : /\ h.kind = "studentSetup" /\ h.pc = "done"
                        /\ Len(h.calls) = 1 /\ ~h.calls[1].proc
                        /\ h.call.error = NoFolderError

\* C7: once its process has exited, the promise of a runCommand call has been
\* settled by exactly one call of resolve or reject: resolved with the
\* captured standard output if the exit status is zero, rejected with the
\* process's error object if it is not; while the process runs it is pending.
C7_SettlesOnce ==
    \A h \in Alive :
        LET p == h.call IN
        /\ p.proc = "running" => (p.state = "pending" /\ p.resolves + p.rejects = 0)
        /\ p.proc = "exited" =>
              /\ p.resolves + p.rejects = 1
              /\ p.exit = 0 => (p.state = "resolved" /\ p.stdout = p.out /\ p.resolves = 1)
              /\ p.exit # 0 => (p.state = "rejected" /\ p.error = ExecError /\ p.rejects = 1)

C7_Witness ==
    /\ \E h \in Alive : /\ h.call.proc = "exited" /\ h.call.exit = 1
                        /\ h.call.state = "rejected"
    /\ \E h \in Alive : /\ h.call.proc = "exited" /\ h.call.exit = 0
                        /\ h.call.state = "resolved" /\ h.call.stdout = <<"\n">>

\* C8: in a student-resync invocation the hard reset is issued only after
\* 'git fetch origin' has succeeded, 'git clean -fd' only after the hard reset
\* has succeeded, and 'Project synced successfully!' is shown only after
\* fetch, reset and clean have all succeeded.
C8_ResyncOrder ==
    \A h \in Alive :
        h.kind = "studentResync" =>
            LET Succeeded(i) == h.calls[i].res = "resolved"
                fetched(i) == \E j \in 1..(i - 1) :
                                  h.calls[j].cmd = <<"git fetch origin">> /\ Succeeded(j)
                reset(i) == \E j \in 1..(i - 1) :
                                  IsResetCmd(h.calls[j].cmd) /\ Succeeded(j)
                cleaned(i) == \E j \in 1..(i - 1) :
                                  h.calls[j].cmd = <<"git clean -fd">> /\ Succeeded(j)
                end == Len(h.calls) + 1
            IN
            /\ \A i \in 1..Len(h.calls) :
                  /\ IsResetCmd(h.calls[i].cmd) =>
                        (fetched(i) /\ h.calls[i].cmd = <<"git reset --hard origin/">> \o h.branchName)
                  /\ h.calls[i].cmd = <<"git clean -fd">> => reset(i)
            /\ (\E k \in 1..Len(h.notes) : h.notes[k].text = InfoSynced) =>
                  (fetched(end) /\ reset(end) /\ cleaned(end))

C8_Witness ==
    \E h \in Alive :
        /\ h.kind = "studentResync" /\ h.pc = "done" /\ Len(h.calls) = 4
        /\ h.notes = <<[type |-> "info", text |-> InfoSynced]>>
        /\ h.branchName = <<"m">>

\* C9: the 'repoUrl' entry changes only in the step in which the 'git clone'
\* of a student-setup invocation succeeds, and every such step sets it to
\* https://github.com/afmiguel/<name>.git for that invocation's name: it
\* holds the URL of the most recently succeeded clone, and a cancelled or
\* empty prompt, a failed clone and every other command leave it unchanged.
C9_RepoUrlLastClone ==
    [][/\ repoUrl' # repoUrl =>
             \E h \in Alive : \E g \in Touched :
                 /\ h.kind = "studentSetup" /\ h.pc = "await"
                 /\ handlers' = (handlers (-) SetToBag({h})) (+) SetToBag({g})
                 /\ g.kind = "studentSetup" /\ g.repoName = h.repoName
                 /\ g.calls[1].res = "resolved"
       /\ \A g \in Touched :
             g.pc = "awaitUpdate" =>
                 repoUrl' = <<"https://github.com/afmiguel/", g.repoName, ".git">>
      ]_vars

C9_Witness ==
    /\ repoUrl = <<"https://github.com/afmiguel/", "aula2", ".git">>
    /\ \E h \in Alive : /\ h.kind = "studentSetup" /\ h.pc = "done"
                        /\ h.repoName = "aula1" /\ h.calls[1].res = "rejected"

\* C10: the Clone and Reset buttons are never both visible; neither is
\* visible when the last visibility update found no workspace folder, and
\* otherwise exactly one is: Reset if that update found a .git entry in the
\* first folder, Clone if it did not.
C10_ButtonsExclusive ==
    /\ ~(buttons.clone /\ buttons.reset)
    /\ ~seen.folder => (~buttons.clone /\ ~buttons.reset)
    /\ seen.folder => /\ buttons.reset <=> seen.git
                      /\ buttons.clone <=> ~seen.git

C10_Witness ==
    /\ buttons.reset /\ seen.folder /\ seen.git
    /\ wsOpen /\ ~gitExists

====
